---- MODULE Spec2Model ----
(***************************************************************************)
(* A model of pyqrack's QrackSimulator (src/pyqrack/qrack_simulator.py):   *)
(* the host-language wrapper that owns one engine handle (sid) per object  *)
(* and forwards every operation to the native engine through the ctypes    *)
(* binding Qrack.qrack_lib.                                                *)
(*                                                                         *)
(* Three specifications share the module:                                  *)
(*   Spec       object lifetime: __init__, __del__, compose, decompose,    *)
(*              gate / measurement / ALU calls, the try_separate forms;    *)
(*   SpecPyzx   run_pyzx_gates on bounded gate lists;                      *)
(*   SpecUbyte  _to_ubyte on bounded lookup tables.                        *)
(***************************************************************************)
EXTENDS Integers, Sequences, FiniteSets, TLC

\* ------------------------------------------------------------------ bounds
MaxObjs == 2
MaxHandles == 3
MaxGates == 2
MaxNv == 9
MaxTab == 3

Objs == 1..MaxObjs
Handles == 0..(MaxHandles - 1)

\* self.sid = None (line 17, line 37): a value that is no engine handle.
None == -2

VARIABLES
    sid,         \* [Objs -> Handles \cup {None}]: each object's self.sid
    ost,         \* [Objs -> {"unborn","ready","refused","raised","placeholder"}]
    live,        \* engine: the handles currently allocated
    destroys,    \* engine: destroy calls received by a handle since it was last issued
    argtypes,    \* binding: "declared" (ctypes argtypes set on every function) or "unknown"
    last,        \* the most recent wrapper call: its inputs, engine calls and outcome
    pz,          \* run_pyzx_gates: the gate list, the primitives issued, the outcome
    ub           \* _to_ubyte: nv, the table v, the buffer b, the outcome

vars == <<sid, ost, live, destroys, argtypes, last, pz, ub>>

\* ------------------------------------------------------- run_pyzx_gates

\* The names the adapter has a branch for (lines 380-414).
DispatchNames ==
    {"XPhase", "ZPhase", "Z", "S", "T", "NOT", "HAD", "CNOT", "CZ", "CX",
     "SWAP", "CRZ", "CHAD", "ParityPhase", "FSim", "CCZ", "Tof"}

\* Names no branch tests for.
OtherNames == {"Y", "Measure"}

\* A pyzx gate record: the attributes the branches read.  Angles are kept in
\* units of pi (the code multiplies gate.phase by math.pi).
GateRec(name, variant) ==
    [name |-> name, control |-> variant, target |-> 1 - variant,
     ctrl1 |-> variant, ctrl2 |-> 2, phase |-> variant + 1,
     theta |-> 1, phi |-> 2, targets |-> <<0, 1>>]

Gates == {GateRec(n, k) : n \in DispatchNames \cup OtherNames, k \in 0..1}

\* A primitive call on the register: the wrapper method and its arguments.
Prim(fn, args) == [fn |-> fn, args |-> args]

\* The body of the branch a gate name selects (lines 381-415).
Translate(gate) ==
    CASE gate.name = "XPhase" -> <<Prim("r", <<"PauliX", gate.phase, gate.target>>)>>
      [] gate.name = "ZPhase" -> <<Prim("r", <<"PauliZ", gate.phase, gate.target>>)>>
      [] gate.name = "Z" -> <<Prim("z", <<gate.target>>)>>
      [] gate.name = "S" -> <<Prim("s", <<gate.target>>)>>
      [] gate.name = "T" -> <<Prim("t", <<gate.target>>)>>
      [] gate.name = "NOT" -> <<Prim("x", <<gate.target>>)>>
      [] gate.name = "HAD" -> <<Prim("h", <<gate.target>>)>>
      [] gate.name = "CNOT" -> <<Prim("mcx", <<<<gate.control>>, gate.target>>)>>
      [] gate.name = "CZ" -> <<Prim("mcz", <<<<gate.control>>, gate.target>>)>>
      [] gate.name = "CX" -> <<Prim("h", <<gate.control>>),
                               Prim("mcx", <<<<gate.control>>, gate.target>>),
                               Prim("h", <<gate.control>>)>>
      [] gate.name = "SWAP" -> <<Prim("swap", <<gate.control, gate.target>>)>>
      [] gate.name = "CRZ" ->
           <<Prim("mcr", <<"PauliZ", gate.phase, <<gate.control>>, gate.target>>)>>
      [] gate.name = "CHAD" -> <<Prim("mch", <<<<gate.control>>, gate.target>>)>>
      [] gate.name = "ParityPhase" ->
           <<Prim("phase_parity", <<gate.phase, gate.targets>>)>>
      [] gate.name = "FSim" ->
           <<Prim("fsim", <<gate.theta, gate.phi, gate.control, gate.target>>)>>
      [] gate.name = "CCZ" -> <<Prim("mcz", <<<<gate.ctrl1, gate.ctrl2>>, gate.target>>)>>
      [] gate.name = "Tof" -> <<Prim("mcx", <<<<gate.ctrl1, gate.ctrl2>>, gate.target>>)>>
      [] OTHER -> <<>>

\* The first fourteen tests of the chain (lines 380-408) read gate.name.
EarlyNames ==
    {"XPhase", "ZPhase", "Z", "S", "T", "NOT", "HAD", "CNOT", "CZ", "CX",
     "SWAP", "CRZ", "CHAD", "ParityPhase"}

\* The same test written against the loop variable: what line 410 would be
\* with `gate` in place of `game`.
FSimTestOnGate(gate) == IF gate.name = "FSim" THEN "true" ELSE "false"

\* Line 410, `elif game.name == 'FSim'`: no name `game` is bound in the method,
\* the module or the builtins, so evaluating the test raises NameError.
FSimTest(gate) == "NameError"

\* One iteration of the loop (lines 380-415): the primitives the gate issues
\* and whether the iteration raised.  A gate no test matches falls off the end
\* of the chain: there is no else branch.
Dispatch(gate) ==
    IF gate.name \in EarlyNames
    THEN [calls |-> Translate(gate), raised |-> FALSE]
    ELSE LET t == FSimTest(gate) IN
         IF t = "NameError" THEN [calls |-> <<>>, raised |-> TRUE]
         ELSE IF t = "true" THEN [calls |-> Translate(gate), raised |-> FALSE]
         ELSE IF gate.name \in {"CCZ", "Tof"}
              THEN [calls |-> Translate(gate), raised |-> FALSE]
              ELSE [calls |-> <<>>, raised |-> FALSE]

\* run_pyzx_gates (lines 378-415): the loop over the list, from gate i, with
\* the primitives issued so far.  failedAt is the index of the gate whose
\* iteration raised (0: none).
RECURSIVE PyzxLoop(_, _, _)
PyzxLoop(gates, i, issued) ==
    IF i > Len(gates)
    THEN [calls |-> issued, raised |-> FALSE, failedAt |-> 0]
    ELSE LET d == Dispatch(gates[i]) IN
         IF d.raised
         THEN [calls |-> issued \o d.calls, raised |-> TRUE, failedAt |-> i]
         ELSE PyzxLoop(gates, i + 1, issued \o d.calls)

run_pyzx_gates(gates) == PyzxLoop(gates, 1, <<>>)

\* ------------------------------------------------------------ the engine

\* One call through Qrack.qrack_lib: function, arguments, returned value
\* (<<>> when the wrapper reads none).
Call(fn, args, ret) == [fn |-> fn, args |-> args, ret |-> ret]

\* ctypes' conversion of a handle argument.  An integer is passed as it is.
\* None is refused (ArgumentError) when the function declares its argument
\* types (strict), and is passed as a NULL pointer (the integer 0) when it does
\* not.  The binding's declarations are not part of this file: both are kept.
Refused(s, strict) == s = None /\ strict
Marshal(s) == IF s = None THEN 0 ELSE s

\* Each wrapper primitive forwards one engine call on the object's handle.
Forward(s, p) == Call(p.fn, <<Marshal(s)>> \o p.args, <<>>)
ForwardAll(s, ps) == [i \in 1..Len(ps) |-> Forward(s, ps[i])]

\* The engine issues handle h: it is allocated, and has never been destroyed.
Issued(lv, ds, h) == [live |-> lv \cup {h}, destroys |-> [ds EXCEPT ![h] = 0]]

\* The engine's destroy(h).
Destroyed(lv, ds, h) == [live |-> lv \ {h}, destroys |-> [ds EXCEPT ![h] = @ + 1]]

\* The record of a wrapper call.
Rec(op, obj, other, pre, inp, calls, outcome, ret) ==
    [op |-> op, obj |-> obj, other |-> other, pre |-> pre, inp |-> inp,
     calls |-> calls, outcome |-> outcome, ret |-> ret]

NoCall == Rec("none", 0, 0, None, <<>>, <<>>, "ok", <<>>)

\* ------------------------------------------------------ QrackSimulator

NoCircuit == [present |-> FALSE, qubits |-> 0, gates |-> <<>>]
Circuit(n, gs) == [present |-> TRUE, qubits |-> n, gates |-> gs]

\* The constructor's flag arguments at their defaults (line 16).
DefaultFlags == <<TRUE, TRUE, TRUE, FALSE, TRUE, TRUE, TRUE>>

\* The test of line 22 with the count compared against 0 instead of -1.
BothGivenPositive(qubitCount, cloneSid) == qubitCount > 0 /\ cloneSid > -1

\* Line 22: the test that refuses a clone together with a qubit count.
BothGiven(qubitCount, cloneSid) == qubitCount > -1 /\ cloneSid > -1

\* Lines 27-28: a negative qubit count becomes 0.
ClampCount(qubitCount) == IF qubitCount < 0 THEN 0 ELSE qubitCount

\* __init__ (lines 16-32), h being the handle the engine returns if asked.
__init__(qubitCount, cloneSid, pyzxCircuit, h) ==
    LET qc == IF pyzxCircuit.present THEN pyzxCircuit.qubits ELSE qubitCount IN
    IF BothGiven(qc, cloneSid)
    THEN [sid |-> None, calls |-> <<>>, outcome |-> "RuntimeError"]
    ELSE LET c0 == IF cloneSid > -1
                   THEN Call("init_clone", <<cloneSid>>, <<h>>)
                   ELSE Call("init_count_type", <<ClampCount(qc)>> \o DefaultFlags, <<h>>)
             run == IF pyzxCircuit.present
                    THEN run_pyzx_gates(pyzxCircuit.gates)
                    ELSE [calls |-> <<>>, raised |-> FALSE, failedAt |-> 0]
         IN [sid |-> h, calls |-> <<c0>> \o ForwardAll(h, run.calls),
             outcome |-> IF run.raised THEN "NameError" ELSE "ok"]

\* The object the next construction creates.
Unborn == {o \in Objs : ost[o] = "unborn"}
NewObj == CHOOSE o \in Unborn : \A p \in Unborn : o <= p

QubitCounts == {-2, -1, 0}
CloneSids == {-1} \cup Handles
Circuits ==
    {NoCircuit,
     Circuit(1, <<GateRec("HAD", 0)>>),
     Circuit(1, <<GateRec("HAD", 0), GateRec("Tof", 0)>>)}

\* A construction line 23 refuses: no engine call is made.
CtorRefused(qubitCount, cloneSid, pyzxCircuit) ==
    /\ Unborn # {}
    /\ LET o == NewObj
           r == __init__(qubitCount, cloneSid, pyzxCircuit, 0)
       IN /\ r.outcome = "RuntimeError"
          /\ sid' = [sid EXCEPT ![o] = r.sid]
          /\ ost' = [ost EXCEPT ![o] = "refused"]
          /\ last' = Rec("init", o, 0, None,
                         <<qubitCount, cloneSid, pyzxCircuit>>, r.calls, r.outcome, <<>>)
          /\ UNCHANGED <<live, destroys, argtypes, pz, ub>>

\* A construction that reaches the engine: init_clone of an allocated handle
\* (the engine dereferences cloneSid), or init_count_type.
Ctor(qubitCount, cloneSid, pyzxCircuit) ==
    /\ Unborn # {}
    /\ cloneSid > -1 => cloneSid \in live
    /\ \E h \in Handles \ live :
         LET o == NewObj
             r == __init__(qubitCount, cloneSid, pyzxCircuit, h)
             e == Issued(live, destroys, h)
         IN /\ r.outcome # "RuntimeError"
            /\ sid' = [sid EXCEPT ![o] = r.sid]
            /\ ost' = [ost EXCEPT ![o] = IF r.outcome = "ok" THEN "ready" ELSE "raised"]
            /\ live' = e.live
            /\ destroys' = e.destroys
            /\ last' = Rec("init", o, 0, None,
                           <<qubitCount, cloneSid, pyzxCircuit>>, r.calls, r.outcome, <<>>)
            /\ UNCHANGED <<argtypes, pz, ub>>

\* __del__ (lines 34-37): the engine calls it makes on an object whose sid is s.
__del__(s) == IF s # None THEN <<Call("destroy", <<s>>, <<>>)>> ELSE <<>>

\* __del__ runs on an object: called by the program, or by the collector on a
\* placeholder or on an object whose constructor raised.
Del(o) ==
    /\ ost[o] # "unborn"
    /\ LET s == sid[o]
           cs == __del__(s)
           e == IF cs # <<>> THEN Destroyed(live, destroys, s)
                ELSE [live |-> live, destroys |-> destroys]
       IN /\ sid' = [sid EXCEPT ![o] = None]
          /\ live' = e.live
          /\ destroys' = e.destroys
          /\ last' = Rec("del", o, 0, s, <<>>, cs, "ok", <<>>)
          /\ UNCHANGED <<ost, argtypes, pz, ub>>

\* A wrapper method that forwards one engine call on self.sid: the binding
\* refuses None, or the call goes out; wret is what the method returns.
Invoke(s, strict, fn, args, ret, wret) ==
    IF Refused(s, strict)
    THEN [calls |-> <<>>, outcome |-> "ArgumentError", ret |-> <<>>]
    ELSE [calls |-> <<Call(fn, <<Marshal(s)>> \o args, ret)>>,
          outcome |-> "ok", ret |-> wret]

\* x (lines 97-98), m (lines 212-213), add (lines 304-305).
x(s, strict, q) == Invoke(s, strict, "X", <<q>>, <<>>, <<>>)
m(s, strict, q, r) == Invoke(s, strict, "M", <<q>>, <<r>>, <<r>>)
add(s, strict, a, q) == Invoke(s, strict, "ADD", <<a, Len(q), q>>, <<>>, <<>>)

\* try_separate_1qb (lines 366-367), try_separate_2qb (lines 369-370).
try_separate_1qb(s, strict, qi1, r) == Invoke(s, strict, "TrySeparate1Qb", <<qi1>>, <<r>>, <<r>>)
try_separate_2qb(s, strict, qi1, qi2, r) ==
    Invoke(s, strict, "TrySeparate2Qb", <<qi1, qi2>>, <<r>>, <<r>>)

\* try_separate_tolerance (lines 372-373): the last argument expression is the
\* name `tol`, which nothing binds (the parameter is t); building the argument
\* list raises NameError, so the engine function is never called.
try_separate_tolerance(s, strict, qs, t) ==
    [calls |-> <<>>, outcome |-> "NameError", ret |-> <<>>]

\* A call of one of the forwarding methods on a constructed object.
Method(o, name, res) ==
    /\ ost[o] = "ready"
    /\ last' = Rec(name, o, 0, sid[o], <<>>, res.calls, res.outcome, res.ret)
    /\ UNCHANGED <<sid, ost, live, destroys, argtypes, pz, ub>>

\* Whether the binding refuses a handle argument: it matters only when the
\* argument is None, and is open unless the argument types are declared.
Bindings(s) == IF s = None /\ argtypes = "unknown" THEN BOOLEAN ELSE {TRUE}

X(o) == \E strict \in Bindings(sid[o]) : Method(o, "x", x(sid[o], strict, 0))
M(o) ==
    \E strict \in Bindings(sid[o]), r \in 0..1 :
        Method(o, "m", m(sid[o], strict, 0, r))
Add(o) == \E strict \in Bindings(sid[o]) : Method(o, "add", add(sid[o], strict, 1, <<0>>))
TrySeparate1Qb(o) ==
    \E strict \in Bindings(sid[o]), r \in BOOLEAN :
        Method(o, "try_separate_1qb", try_separate_1qb(sid[o], strict, 0, r))
TrySeparate2Qb(o) ==
    \E strict \in Bindings(sid[o]), r \in BOOLEAN :
        Method(o, "try_separate_2qb", try_separate_2qb(sid[o], strict, 0, 1, r))
TrySeparateTol(o) ==
    Method(o, "try_separate_tolerance",
           try_separate_tolerance(sid[o], TRUE, <<0>>, 1))

\* compose (lines 242-243): one engine call on both handles; neither object's
\* sid is assigned.
compose(s, so, strict, q) ==
    IF Refused(s, strict) \/ Refused(so, strict)
    THEN [calls |-> <<>>, outcome |-> "ArgumentError", ret |-> <<>>]
    ELSE [calls |-> <<Call("Compose", <<Marshal(s), Marshal(so), q>>, <<>>)>>,
          outcome |-> "ok", ret |-> <<>>]

\* The engine's Compose: the appended register is absorbed.  Whether its handle
\* stays allocated is the engine's choice; both outcomes are kept.
EngineCompose(lv, appended) == {lv, lv \ {appended}}

Compose(o, other) ==
    /\ ost[o] = "ready" /\ ost[other] = "ready" /\ o # other
    /\ \E strict \in Bindings(sid[o]) \cup Bindings(sid[other]) :
       LET res == compose(sid[o], sid[other], strict, <<0>>) IN
       /\ \/ /\ res.outcome # "ok"
             /\ live' = live
          \/ /\ res.outcome = "ok"
             /\ Marshal(sid[o]) \in live /\ Marshal(sid[other]) \in live
             /\ Marshal(sid[o]) # Marshal(sid[other])
             /\ live' \in EngineCompose(live, Marshal(sid[other]))
       /\ last' = Rec("compose", o, other, sid[o], <<sid[other]>>,
                      res.calls, res.outcome, res.ret)
       /\ UNCHANGED <<sid, ost, destroys, argtypes, pz, ub>>

\* decompose without line 247: the placeholder's handle is never destroyed.
NoRelease(h) == <<>>

\* Line 247: the placeholder's engine simulator is destroyed; other.sid keeps
\* the destroyed handle until line 248 assigns it.
PlaceholderRelease(h) == <<Call("destroy", <<h>>, <<>>)>>

\* Line 248: the handle other.sid holds once Decompose has returned h2.
PlaceholderAdopt(h1, h2) == h2

\* decompose (lines 245-249).  Line 246 constructs the placeholder (handle h1),
\* line 247 destroys h1, line 248 evaluates the arguments (marshalling q may
\* raise TypeError, the binding may refuse None), calls Decompose and stores
\* the handle it returns.  On a raise the placeholder object is left holding
\* h1 until the collector finalizes it.
Decompose(o, qOk, strict) ==
    /\ ost[o] = "ready"
    /\ Unborn # {}
    /\ \E h1 \in Handles \ live :
         LET p == NewObj
             s == sid[o]
             q == <<0>>
             ctor == __init__(-1, -1, NoCircuit, h1)
             rel == PlaceholderRelease(ctor.sid)
             e1 == Issued(live, destroys, h1)
             e2 == IF rel # <<>> THEN Destroyed(e1.live, e1.destroys, h1) ELSE e1
         IN \/ /\ ~qOk \/ Refused(s, strict)
               /\ sid' = [sid EXCEPT ![p] = ctor.sid]
               /\ ost' = [ost EXCEPT ![p] = "placeholder"]
               /\ live' = e2.live
               /\ destroys' = e2.destroys
               /\ last' = Rec("decompose", o, p, s, <<qOk>>, ctor.calls \o rel,
                              IF ~qOk THEN "TypeError" ELSE "ArgumentError", <<>>)
               /\ UNCHANGED <<argtypes, pz, ub>>
            \/ /\ qOk /\ ~Refused(s, strict)
               /\ Marshal(s) \in e2.live
               /\ \E h2 \in Handles \ e2.live :
                    LET e3 == Issued(e2.live, e2.destroys, h2) IN
                    /\ sid' = [sid EXCEPT ![p] = PlaceholderAdopt(ctor.sid, h2)]
                    /\ ost' = [ost EXCEPT ![p] = "ready"]
                    /\ live' = e3.live
                    /\ destroys' = e3.destroys
                    /\ last' = Rec("decompose", o, p, s, <<qOk>>,
                                   ctor.calls \o rel
                                     \o <<Call("Decompose", <<Marshal(s), Len(q), q>>, <<h2>>)>>,
                                   "ok", <<p>>)
                    /\ UNCHANGED <<argtypes, pz, ub>>

\* ------------------------------------------------ the lifetime specification

PzIdle == [gates |-> <<>>, done |-> FALSE, calls |-> <<>>, raised |-> FALSE, failedAt |-> 0]
UbIdle == [nv |-> 0, v |-> <<>>, done |-> FALSE, b |-> <<>>, outcome |-> "idle"]

InitWith(binding) ==
    /\ sid = [o \in Objs |-> None]
    /\ ost = [o \in Objs |-> "unborn"]
    /\ live = {}
    /\ destroys = [h \in Handles |-> 0]
    /\ argtypes = binding
    /\ last = NoCall
    /\ pz = PzIdle
    /\ ub = UbIdle

Init == InitWith("unknown")

Next ==
    \/ \E qc \in QubitCounts, cs \in CloneSids, c \in Circuits : CtorRefused(qc, cs, c)
    \/ \E qc \in QubitCounts, cs \in CloneSids, c \in Circuits : Ctor(qc, cs, c)
    \/ \E o \in Objs : Del(o)
    \/ \E o \in Objs : X(o)
    \/ \E o \in Objs : M(o)
    \/ \E o \in Objs : Add(o)
    \/ \E o \in Objs : TrySeparate1Qb(o)
    \/ \E o \in Objs : TrySeparate2Qb(o)
    \/ \E o \in Objs : TrySeparateTol(o)
    \/ \E o, other \in Objs : Compose(o, other)
    \/ \E o \in Objs, qOk \in BOOLEAN : \E strict \in Bindings(sid[o]) : Decompose(o, qOk, strict)

Spec == Init /\ [][Next]_vars

\* The same program over a binding that declares every function's argument
\* types, so that a None handle is always refused.
InitDeclared == InitWith("declared")
SpecDeclared == InitDeclared /\ [][Next]_vars

\* Constructions, finalizations and decompose calls only.
NextOwn ==
    \/ \E qc \in QubitCounts, cs \in CloneSids, c \in Circuits : CtorRefused(qc, cs, c)
    \/ \E qc \in QubitCounts, cs \in CloneSids, c \in Circuits : Ctor(qc, cs, c)
    \/ \E o \in Objs : Del(o)
    \/ \E o \in Objs, qOk \in BOOLEAN : \E strict \in Bindings(sid[o]) : Decompose(o, qOk, strict)

SpecOwn == Init /\ [][NextOwn]_vars

\* ------------------------------------------- the run_pyzx_gates specification

RECURSIVE SeqsUpTo(_, _)
SeqsUpTo(S, n) ==
    IF n = 0 THEN {<<>>}
    ELSE LET shorter == SeqsUpTo(S, n - 1) IN
         shorter \cup {Append(s, e) : s \in {r \in shorter : Len(r) = n - 1}, e \in S}

InitPyzx ==
    /\ sid = [o \in Objs |-> None]
    /\ ost = [o \in Objs |-> "unborn"]
    /\ live = {}
    /\ destroys = [h \in Handles |-> 0]
    /\ argtypes = "unknown"
    /\ last = NoCall
    /\ pz \in {[PzIdle EXCEPT !.gates = gs] : gs \in SeqsUpTo(Gates, MaxGates)}
    /\ ub = UbIdle

\* One call of run_pyzx_gates on the chosen list.
RunPyzxGates ==
    /\ ~pz.done
    /\ LET r == run_pyzx_gates(pz.gates) IN
       pz' = [gates |-> pz.gates, done |-> TRUE, calls |-> r.calls,
              raised |-> r.raised, failedAt |-> r.failedAt]
    /\ UNCHANGED <<sid, ost, live, destroys, argtypes, last, ub>>

NextPyzx == RunPyzxGates

SpecPyzx == InitPyzx /\ [][NextPyzx]_vars

\* ------------------------------------------------- the _to_ubyte specification

\* Line 50 without the "- 1": one byte too many when nv is a multiple of 8.
ByteWidthOffByOne(nv) == (nv \div 8) + 1

\* Line 50: c = math.floor((nv - 1) / 8) + 1.
ByteWidth(nv) == ((nv - 1) \div 8) + 1

\* Lines 54-57: the c bytes one entry writes, u & 0xFF then u >>= 8.
RECURSIVE EntryBytes(_, _)
EntryBytes(u, c) ==
    IF c = 0 THEN <<>> ELSE <<u % 256>> \o EntryBytes(u \div 256, c - 1)

\* Lines 52-57: the bytes the loops write, in order, from b[0] on.
RECURSIVE Written(_, _, _)
Written(v, k, c) ==
    IF k > Len(v) THEN <<>> ELSE EntryBytes(v[k], c) \o Written(v, k + 1, c)

\* _to_ubyte (lines 49-59): a zeroed array of c * 2^nv bytes (line 51), then
\* the writes; a write past the end of the array raises IndexError.
_to_ubyte(nv, v) ==
    LET c == ByteWidth(nv)
        size == c * (2 ^ nv)
        w == Written(v, 1, c)
    IN IF Len(w) > size
       THEN [b |-> <<>>, outcome |-> "IndexError"]
       ELSE [b |-> [j \in 1..size |-> IF j <= Len(w) THEN w[j] ELSE 0],
             outcome |-> "ok"]

\* Table entries tried for nv value bits: the ends of the range, the byte
\* boundary, and one value past the range.
TableEntries(nv) == {u \in {0, 1, 255, 256, (2 ^ nv) - 1, 2 ^ nv} : u <= 2 ^ nv}

InitUbyte ==
    /\ sid = [o \in Objs |-> None]
    /\ ost = [o \in Objs |-> "unborn"]
    /\ live = {}
    /\ destroys = [h \in Handles |-> 0]
    /\ argtypes = "unknown"
    /\ last = NoCall
    /\ pz = PzIdle
    /\ \E nv \in 1..MaxNv :
         ub \in {[UbIdle EXCEPT !.nv = nv, !.v = tab] :
                   tab \in SeqsUpTo(TableEntries(nv), MaxTab)}

\* lda / adc / sbc / hash (lines 352-362) pack their table with
\* _to_ubyte(len(qv), t).
ToUbyte ==
    /\ ~ub.done
    /\ LET r == _to_ubyte(ub.nv, ub.v) IN
       ub' = [nv |-> ub.nv, v |-> ub.v, done |-> TRUE, b |-> r.b, outcome |-> r.outcome]
    /\ UNCHANGED <<sid, ost, live, destroys, argtypes, last, pz>>

NextUbyte == ToUbyte

SpecUbyte == InitUbyte /\ [][NextUbyte]_vars

\* ================================================================ the claims

\* C1: over constructions, decompose calls and finalizations, the engine's
\* destroy is invoked at most once for each handle it issued: a handle that is
\* destroyed and has not been issued again is never destroyed a second time.
C1_DestroyAtMostOnce == \A h \in Handles : destroys[h] <= 1

\* C2: after a.compose(other, q) completes, other's handle can no longer be
\* used through the object other and will not be destroyed when other is
\* finalized (other.sid is None), and a holds the handle it held before.
C2_ComposeConsumesSource ==
    (last.op = "compose" /\ last.outcome = "ok")
        => (sid[last.other] = None /\ sid[last.obj] = last.pre)

\* The positions of the gates whose name has no branch, and the first of them.
OtherAt(gates) == {i \in 1..Len(gates) : gates[i].name \notin DispatchNames}
FirstOther(gates) == CHOOSE i \in OtherAt(gates) : \A j \in OtherAt(gates) : i <= j

\* C3: a gate whose name is not one the adapter dispatches on makes
\* run_pyzx_gates fail, at that gate or before it: the loop never steps over
\* such a gate to the next one.
C3_UnrecognizedGateFails ==
    (pz.done /\ OtherAt(pz.gates) # {})
        => (pz.raised /\ pz.failedAt >= 1 /\ pz.failedAt <= FirstOther(pz.gates))

\* C3's case: a list whose second gate is unrecognized has been run; the first
\* gate was applied and the call failed at the second.
C3_Witness ==
    /\ pz.done
    /\ Len(pz.gates) = 2
    /\ pz.gates[1].name = "HAD"
    /\ pz.gates[2].name \notin DispatchNames
    /\ pz.raised
    /\ pz.failedAt = 2

\* The engine function each try-separate form is to reach.
TrySeparateFn(op) ==
    CASE op = "try_separate_1qb" -> "TrySeparate1Qb"
      [] op = "try_separate_2qb" -> "TrySeparate2Qb"
      [] op = "try_separate_tolerance" -> "TrySeparateTol"

\* C4: each try-separate form, called on a live simulator, forwards exactly one
\* engine call carrying the handle and returns the engine's report.
C4_TrySeparateReachesEngine ==
    (/\ last.op \in {"try_separate_1qb", "try_separate_2qb", "try_separate_tolerance"}
     /\ last.pre \in live)
        => /\ last.outcome = "ok"
           /\ Len(last.calls) = 1
           /\ last.calls[1].fn = TrySeparateFn(last.op)
           /\ last.calls[1].args[1] = last.pre
           /\ last.ret = last.calls[1].ret

\* C5: after decompose succeeds the caller's sid is unchanged, the engine calls
\* were the placeholder's construction, the destroy of the placeholder's handle
\* and Decompose, and the returned object holds the handle Decompose issued;
\* and when no object holds a handle any more, the engine has none allocated.
C5_DecomposeOwnership ==
    /\ (last.op = "decompose" /\ last.outcome = "ok")
         => /\ sid[last.obj] = last.pre
            /\ Len(last.calls) = 3
            /\ last.calls[1].fn = "init_count_type"
            /\ last.calls[2] = Call("destroy", last.calls[1].ret, <<>>)
            /\ last.calls[3].fn = "Decompose"
            /\ sid[last.ret[1]] = last.calls[3].ret[1]
            /\ sid[last.ret[1]] \in live
            /\ (last.calls[1].ret[1] \in live => last.calls[1].ret = last.calls[3].ret)
    /\ (\A o \in Objs : sid[o] = None) => live = {}

\* C5's case: a decompose has succeeded on a live simulator, and Decompose
\* issued a handle other than the placeholder's.
C5_Witness ==
    /\ last.op = "decompose"
    /\ last.outcome = "ok"
    /\ last.pre # None
    /\ last.calls[1].ret # last.calls[3].ret
    /\ sid[last.ret[1]] = last.calls[3].ret[1]

\* C6: an operation called on an object whose __del__ has run (sid is None)
\* fails and makes no engine call.
C6_DestroyedObjectRejects ==
    (/\ last.op \in {"x", "m", "add", "compose", "decompose", "try_separate_1qb",
                     "try_separate_2qb", "try_separate_tolerance"}
     /\ last.pre = None)
        => (last.outcome # "ok" /\ last.calls = <<>>)

\* The translations of the gates from position i on, in list order.
RECURSIVE Concatenated(_, _)
Concatenated(gates, i) ==
    IF i > Len(gates) THEN <<>> ELSE Translate(gates[i]) \o Concatenated(gates, i + 1)

\* C7: for a list of gates all of whose names the adapter dispatches on, the
\* call succeeds and the primitives issued are the gates' translations,
\* concatenated in list order.
C7_DispatchedListsTranslate ==
    (pz.done /\ \A i \in 1..Len(pz.gates) : pz.gates[i].name \in DispatchNames)
        => (~pz.raised /\ pz.calls = Concatenated(pz.gates, 1))

\* C8: when run_pyzx_gates fails, no primitive of any gate of the list has been
\* issued to the register.
C8_NoPartialApplication == (pz.done /\ pz.raised) => pz.calls = <<>>

\* The positions of the calls that create an engine simulator.
InitCalls(calls) ==
    {i \in 1..Len(calls) : calls[i].fn \in {"init_clone", "init_count_type"}}

\* C9: a construction given both a qubit count > -1 (directly or from the
\* circuit) and a cloneSid > -1 raises RuntimeError with no engine call and sid
\* None; any other construction obtains exactly one handle, by init_clone of
\* cloneSid when cloneSid > -1 and else by init_count_type with a negative count
\* replaced by 0; and finalizing an object whose sid is None destroys nothing.
C9_ConstructionHandles ==
    /\ last.op = "init" =>
         LET qubitCount == last.inp[1]
             cloneSid == last.inp[2]
             circ == last.inp[3]
             qc == IF circ.present THEN circ.qubits ELSE qubitCount
         IN IF qc > -1 /\ cloneSid > -1
            THEN /\ last.outcome = "RuntimeError"
                 /\ last.calls = <<>>
                 /\ sid[last.obj] = None
            ELSE /\ InitCalls(last.calls) = {1}
                 /\ last.calls[1].fn =
                      (IF cloneSid > -1 THEN "init_clone" ELSE "init_count_type")
                 /\ last.calls[1].args[1] =
                      (IF cloneSid > -1 THEN cloneSid ELSE IF qc < 0 THEN 0 ELSE qc)
                 /\ sid[last.obj] = last.calls[1].ret[1]
                 /\ sid[last.obj] \in live
    /\ (last.op = "del" /\ last.pre = None) => last.calls = <<>>

\* C9's case: a construction was refused, the refused object has been
\* finalized, and another construction obtained a handle.
C9_Witness ==
    /\ last.op = "del"
    /\ ost[last.obj] = "refused"
    /\ last.pre = None
    /\ live # {}

\* ceil(n / 8); the value of c bytes of b from offset `from`, least-significant
\* first; the tables the claim is about.
CeilDiv8(n) == (n + 7) \div 8
RECURSIVE Decode(_, _, _)
Decode(b, from, c) ==
    IF c = 0 THEN 0 ELSE b[from + 1] + 256 * Decode(b, from + 1, c - 1)
InRange(nv, v) ==
    /\ nv >= 1
    /\ Len(v) <= 2 ^ nv
    /\ \A k \in 1..Len(v) : v[k] >= 0 /\ v[k] <= (2 ^ nv) - 1

\* C10: for nv >= 1 and a table of at most 2^nv entries, each in 0 .. 2^nv - 1,
\* the buffer has c * 2^nv bytes with c = ceil(nv / 8), entry k is decoded
\* exactly from bytes k*c .. k*c + c - 1 taken least-significant first, and
\* every byte past len(v) * c is zero.
C10_TablePacking ==
    (ub.done /\ InRange(ub.nv, ub.v))
        => LET c == CeilDiv8(ub.nv) IN
           /\ ub.outcome = "ok"
           /\ Len(ub.b) = c * (2 ^ ub.nv)
           /\ \A j \in 1..Len(ub.b) : ub.b[j] \in 0..255
           /\ \A k \in 0..(Len(ub.v) - 1) : Decode(ub.b, k * c, c) = ub.v[k + 1]
           /\ \A j \in (Len(ub.v) * c)..(Len(ub.b) - 1) : ub.b[j + 1] = 0

\* C10's case: a two-byte-wide table (nv > 8) holding an entry above 255 has
\* been packed into a buffer longer than the bytes written.
C10_Witness ==
    /\ ub.done
    /\ InRange(ub.nv, ub.v)
    /\ ub.nv > 8
    /\ Len(ub.v) >= 2
    /\ \E k \in 1..Len(ub.v) : ub.v[k] > 255
    /\ Len(ub.b) > 2 * Len(ub.v)

====
